---------------------------- MODULE Spec2Model ----------------------------
(***************************************************************************)
(* Model of the TaskMaster client's real-time core:                        *)
(*   - WebSocketService (services/websocket.service.ts): the STOMP client, *)
(*     reconnect scheduling, the notification and task-timer subscriptions;*)
(*   - TimerService (services/timer.service.ts): the activeTimers map, the *)
(*     shared 100 ms interval, the timer commands;                         *)
(*   - TasksView (views/TasksView.vue): mount/unmount, fetchTasks, the     *)
(*     detail dialog.                                                      *)
(* The program state is kept in one variable per field.  A method is an    *)
(* operator from a snapshot of the fields (a record) to the snapshot after *)
(* the call, so that a method calling another is operator application.     *)
(***************************************************************************)
EXTENDS Integers, FiniteSets, Sequences, TLC

---------------------------------------------------------------------------
(* Bounds of the model *)

\* number of clients that were replaced by connect() without being deactivated
MaxOrphans == 1
\* reconnect timeouts still pending after a newer one replaced their handle
MaxStaleTimeouts == 1
\* wire-level subscriptions to the notification queue that are counted
MaxNotifSubs == 2
\* timer commands awaiting their response
MaxInFlight == 1
\* pause requests issued by the interval and not yet answered, per task
MaxBgPause == 1
\* task fetches of fetchTasks awaiting their response
MaxFetching == 1
\* interval runs counted after a push; the count saturates here
MaxTicksCounted == 2
\* the clock of the page (Date.now(), in ms) is followed up to this value
MaxClock == 45001
\* records in the notification feed
MaxFeed == 3
\* records in the list a fetch returns
MaxFetched == 2
\* requests of the notification store awaiting their response
MaxFeedRequests == 2
\* records in WebSocketService.notifications (the list only grows)
MaxWsNotifications == 2
\* 'notification' listeners registered with WebSocketService
MaxListeners == 2
\* frames sent by the server and not yet delivered
MaxPushQueue == 2
\* requests handled by the server whose response has not arrived
MaxAnswers == 2

---------------------------------------------------------------------------
(* Program constants *)

\* websocket.service.ts: private maxReconnectAttempts = 5
maxReconnectAttempts == 5
\* timer.service.ts: the interval period and the decrement
TickMillis == 100
\* handleWebSocketClose: event.code !== 1000
NormalClosure == 1000
\* updatePomodoroTime: Math.min(60, minutes)
MaxMinutes == 60
\* updatePomodoroTime: minutes * 60 * 1000
MillisPerMinute == 60000
\* attemptReconnect: Math.min(1000 * Math.pow(2, n), 30000)
ReconnectBaseDelay == 1000
ReconnectMaxDelay == 30000
\* handleVisibilityChange: Date.now() - documentHiddenTime > 30000
HiddenThreshold == 30000

---------------------------------------------------------------------------
(* Input domains *)

Tasks == {"t1", "t2"}
\* the task the callers act on in Spec and SpecChannel; SpecTickPush drives
\* every task of Tasks
Focus == {"t1"}
\* callbacks a caller may pass to TimerService.subscribeToTaskTimer
Callbacks == {"h1", "h2"}
NoCallback == "none"
\* value of wireTimer for a topic without SUBSCRIBE on the connection
NoWire == "unsubscribed"
\* remainingTimeMillis values carried by pushes and by returned tasks
RemValues == {0, 50, 200}
\* pomodoroTimeMillis values of returned tasks (0: not set)
PomValues == {0, 200}
\* close codes of a closure: normal, abnormal
CloseCodes == {1000, 1006}
\* minutes arguments of updatePomodoroTime
MinuteValues == {0, 1, 61}
\* the clock advances by these amounts (ms)
ClockSteps == {15000, 30000}
\* message.body of a frame: the JSON text of a value, or a text JSON.parse
\* rejects
stringify(x) == <<"json", x>>
Unparseable == <<"{">>
\* JSON.parse(text) returns (it throws otherwise)
parses(text) == Len(text) = 2
\* the value JSON.parse(text) returns
JSONparse(text) == text[2]

\* the callers of notificationStore.initialize(): the auth store (login and
\* fetchUser) and NotificationIcon
InitCallers == {"auth", "icon"}
\* ids, read flags and messages of notifications
NotificationIds == {"n1", "n2", "n3"}
Messages == {"a"}

\* TimerUpdateDto
TimerUpdateDto == [remainingTimeMillis : RemValues, timerActive : BOOLEAN]
\* the timer fields of a TaskDto returned by the REST collaborator
TaskDto == [pomodoroTimeMillis : PomValues, remainingTimeMillis : RemValues,
            timerActive : BOOLEAN]

\* the timer fields a task has on the server in the runs with a server
ServerStates ==
  {dto \in TaskDto : dto.pomodoroTimeMillis = 200
                     /\ dto.remainingTimeMillis # 0}
ServerTimerAtStart ==
  [pomodoroTimeMillis |-> 200, remainingTimeMillis |-> 200,
   timerActive |-> FALSE]
\* the ids the server gives to the notifications it creates, in order
NextIds == <<"n1", "n2", "n3", "n4">>
\* a frame on its way to the client
Frame(topic, text) == [topic |-> topic, body |-> text]

\* an entry of the activeTimers map; has = FALSE: the map has no such key
NoTimer == [has |-> FALSE, remainingTimeMillis |-> 0, timerActive |-> FALSE]
TimerEntry(r, a) == [has |-> TRUE, remainingTimeMillis |-> r, timerActive |-> a]

\* the fields of a Notification the store works with; the other fields
\* (recipient, type, payload, createdAt) are carried along like message
Notification == [id : NotificationIds, read : BOOLEAN, message : Messages]
\* NotificationDto: the same fields as they arrive from the collaborator
NotificationDto == [id : NotificationIds, read : BOOLEAN, message : Messages]

Max(a, b) == IF a >= b THEN a ELSE b
Min(a, b) == IF a <= b THEN a ELSE b

---------------------------------------------------------------------------
VARIABLES
  \* ---- WebSocketService
  stompClient,        \* "null" | "connecting" | "connected" | "closed"
  isConnected,        \* the isConnected ref
  reconnectAttempts,
  reconnectTimeout,   \* "null" | "pending" | "fired": the stored timeout handle
  staleTimeouts,      \* pending timeouts whose handle was overwritten
  pendingNotificationSubscription,
  activeTimerSubscriptions,   \* keys of the map
  token,              \* localStorage has 'token'
  scheduledDelay,     \* delay of the timeout attemptReconnect set last (0: none)
  events,             \* events emitEvent passed to the listeners in this step
  \* ---- the channel (STOMP library and server side)
  wireTimer,          \* task -> handler of the SUBSCRIBE on the current connection
  wireNotif,          \* SUBSCRIBEs to /user/queue/notifications on the connection
  orphans,            \* activated clients no longer referenced by stompClient
  \* ---- TimerService
  activeTimers,       \* task -> entry
  timerSubscriptions, \* task -> "none" | "real" | "dummy" (kind of stored handle)
  timerCallbacks,     \* task -> callback
  backgroundTimerInterval,    \* TRUE: the interval is set
  bgPause,            \* task -> pause requests of the interval awaiting an answer
  inflight,           \* timer commands awaiting the collaborator's response
  \* ---- TasksView and task store
  mounted,
  detailsDialog,
  tasksLoaded,        \* taskStore.tasks or sharedTasks is non-empty
  fetching,           \* fetchTasks awaits the collaborator
  visibilityState,    \* document.visibilityState: "visible" | "hidden"
  documentHiddenTime, \* 0: null
  now,                \* Date.now()
  \* ---- notification store
  notifications,      \* the list, most recent first
  notifLoading,
  notifError,         \* TRUE: error holds a message
  feedRequests,       \* requests of the store awaiting their response
  initialized,        \* the initialized flag of the store
  initPhase,          \* caller -> where its initialize() call stands
  user,               \* authStore.user has a username
  iconMounted,        \* NotificationIcon is mounted (its watcher is active)
  \* ---- WebSocketService, notifications
  wsNotifications,    \* the notifications ref
  listeners,          \* number of 'notification' listeners in the map
  \* ---- the collaborator (server side)
  serverTimers,       \* task -> the timer fields of the task on the server
  serverFeed,         \* the notifications of the user, most recent first
  answers,            \* requests handled by the server, with the list sent
                      \* back, whose response has not arrived yet
  pushQueue,          \* frames on their way to the client, oldest first
  \* ---- observation
  last,               \* the operation that acted last
  lastPush,           \* task -> the update of the last push (observed runs only)
  ticksSince,         \* task -> interval runs since that push, saturating
  hiddenFor,          \* ms the page was hidden when it last became visible
                      \* with the listener attached (-1: hidden time unknown)
  lastIngested,       \* the record the store's listener was called with last
  lastTwo,            \* kinds of the last two observed events of a task
  lastResponse        \* the task returned by the last observed start

progVars == <<stompClient, isConnected, reconnectAttempts, reconnectTimeout,
              staleTimeouts, pendingNotificationSubscription,
              activeTimerSubscriptions, token, wireTimer, wireNotif, orphans,
              activeTimers, timerSubscriptions, timerCallbacks,
              backgroundTimerInterval, bgPause, inflight,
              mounted, detailsDialog, tasksLoaded, fetching,
              scheduledDelay, events, visibilityState, documentHiddenTime, now,
              notifications, notifLoading, notifError, feedRequests,
              initialized, initPhase, user, iconMounted, wsNotifications,
              listeners, serverTimers, serverFeed, answers, pushQueue>>
obsVars == <<lastPush, ticksSince, hiddenFor, lastIngested, lastTwo,
             lastResponse>>
vars == <<progVars, last, obsVars>>

\* snapshot of the program state
Cur == [stompClient |-> stompClient, isConnected |-> isConnected,
        reconnectAttempts |-> reconnectAttempts,
        reconnectTimeout |-> reconnectTimeout, staleTimeouts |-> staleTimeouts,
        pendingNotificationSubscription |-> pendingNotificationSubscription,
        activeTimerSubscriptions |-> activeTimerSubscriptions, token |-> token,
        wireTimer |-> wireTimer, wireNotif |-> wireNotif, orphans |-> orphans,
        activeTimers |-> activeTimers, timerSubscriptions |-> timerSubscriptions,
        timerCallbacks |-> timerCallbacks,
        backgroundTimerInterval |-> backgroundTimerInterval, bgPause |-> bgPause,
        inflight |-> inflight, mounted |-> mounted,
        detailsDialog |-> detailsDialog, tasksLoaded |-> tasksLoaded,
        fetching |-> fetching, scheduledDelay |-> scheduledDelay,
        \* a handler starts with no event emitted
        events |-> {},
        visibilityState |-> visibilityState,
        documentHiddenTime |-> documentHiddenTime, now |-> now,
        notifications |-> notifications, notifLoading |-> notifLoading,
        notifError |-> notifError, feedRequests |-> feedRequests,
        initialized |-> initialized, initPhase |-> initPhase, user |-> user,
        iconMounted |-> iconMounted, wsNotifications |-> wsNotifications,
        listeners |-> listeners, serverTimers |-> serverTimers,
        serverFeed |-> serverFeed,
        answers |-> answers, pushQueue |-> pushQueue]

\* the counters stay within the bounds of the model
InBounds(s) ==
  /\ s.orphans <= MaxOrphans
  /\ s.staleTimeouts <= MaxStaleTimeouts
  /\ s.wireNotif <= MaxNotifSubs
  /\ Cardinality(s.inflight) <= MaxInFlight
  /\ \A t \in Tasks : s.bgPause[t] <= MaxBgPause
  /\ s.fetching <= MaxFetching
  /\ s.now <= MaxClock
  /\ Len(s.notifications) <= MaxFeed
  /\ Cardinality(s.feedRequests) <= MaxFeedRequests
  /\ Len(s.wsNotifications) <= MaxWsNotifications
  /\ s.listeners <= MaxListeners
  /\ Len(s.pushQueue) <= MaxPushQueue
  /\ Cardinality(s.answers) <= MaxAnswers
  /\ Len(s.serverFeed) <= MaxFeed

\* the program state becomes s
Becomes(s) ==
  /\ InBounds(s)
  /\ stompClient' = s.stompClient
  /\ isConnected' = s.isConnected
  /\ reconnectAttempts' = s.reconnectAttempts
  /\ reconnectTimeout' = s.reconnectTimeout
  /\ staleTimeouts' = s.staleTimeouts
  /\ pendingNotificationSubscription' = s.pendingNotificationSubscription
  /\ activeTimerSubscriptions' = s.activeTimerSubscriptions
  /\ token' = s.token
  /\ wireTimer' = s.wireTimer
  /\ wireNotif' = s.wireNotif
  /\ orphans' = s.orphans
  /\ activeTimers' = s.activeTimers
  /\ timerSubscriptions' = s.timerSubscriptions
  /\ timerCallbacks' = s.timerCallbacks
  /\ backgroundTimerInterval' = s.backgroundTimerInterval
  /\ bgPause' = s.bgPause
  /\ inflight' = s.inflight
  /\ mounted' = s.mounted
  /\ detailsDialog' = s.detailsDialog
  /\ tasksLoaded' = s.tasksLoaded
  /\ fetching' = s.fetching
  /\ scheduledDelay' = s.scheduledDelay
  /\ events' = s.events
  /\ visibilityState' = s.visibilityState
  /\ documentHiddenTime' = s.documentHiddenTime
  /\ now' = s.now
  /\ notifications' = s.notifications
  /\ notifLoading' = s.notifLoading
  /\ notifError' = s.notifError
  /\ feedRequests' = s.feedRequests
  /\ initialized' = s.initialized
  /\ initPhase' = s.initPhase
  /\ user' = s.user
  /\ iconMounted' = s.iconMounted
  /\ wsNotifications' = s.wsNotifications
  /\ listeners' = s.listeners
  /\ serverTimers' = s.serverTimers
  /\ serverFeed' = s.serverFeed
  /\ answers' = s.answers
  /\ pushQueue' = s.pushQueue

\* the operation that acted, the task (or the notification) it was about and
\* the callbacks it invoked
Op(name, task, called) == [op |-> name, task |-> task, called |-> called]
NoTask == "-"

\* the step was operation name
Did(name, task, called) ==
  /\ last' = Op(name, task, called)
  /\ UNCHANGED obsVars

---------------------------------------------------------------------------
(* WebSocketService *)

\* connect() that does not look for the token
connectIgnoringToken(s) ==
  IF s.stompClient = "connected" THEN s
  ELSE [s EXCEPT !.stompClient = "connecting",
                 !.orphans = IF s.stompClient = "null" THEN @ ELSE @ + 1]

\* connect(): returns when the client is connected or no token is stored;
\* otherwise a new Client replaces this.stompClient and is activated.  A
\* replaced client was never deactivated: it stays active in the library.
connect(s) ==
  IF s.stompClient = "connected" THEN s
  ELSE IF ~s.token THEN s
  ELSE [s EXCEPT !.stompClient = "connecting",
                 !.orphans = IF s.stompClient = "null" THEN @ ELSE @ + 1]

\* WebSocketService.unsubscribeFromAllTimers(): every stored handle is
\* unsubscribed (STOMP unsubscribe, delete of the key), then the map is cleared
wsUnsubscribeFromAllTimers(s) ==
  [s EXCEPT !.wireTimer = [t \in Tasks |->
                             IF t \in s.activeTimerSubscriptions
                             THEN NoWire ELSE s.wireTimer[t]],
            !.activeTimerSubscriptions = {}]

\* disconnect()
disconnect(s) ==
  LET s1 == IF s.stompClient # "null"
            THEN [wsUnsubscribeFromAllTimers(s) EXCEPT
                    !.stompClient = "null",
                    !.isConnected = FALSE,
                    \* deactivate() ends the connection and its subscriptions
                    !.wireTimer = [t \in Tasks |-> NoWire],
                    !.wireNotif = 0]
            ELSE s
      s2 == IF s1.reconnectTimeout # "null"
            THEN [s1 EXCEPT !.reconnectTimeout = "null"]
            ELSE s1
      s3 == IF s2.pendingNotificationSubscription
            THEN [s2 EXCEPT !.pendingNotificationSubscription = FALSE]
            ELSE s2
  IN [s3 EXCEPT !.reconnectAttempts = 0]

\* subscribeToNotifications(): queued (and connect() when there is no client)
\* while not connected; otherwise one more SUBSCRIBE is sent
subscribeToNotifications(s) ==
  IF s.stompClient # "connected"
  THEN LET s1 == [s EXCEPT !.pendingNotificationSubscription = TRUE]
       IN IF s.stompClient = "null" THEN connect(s1) ELSE s1
  ELSE [s EXCEPT !.wireNotif = @ + 1]

\* emitEvent(event, data): the listeners of the event are called with data
emitEvent(s, event) == [s EXCEPT !.events = @ \cup {event}]

\* handleConnect(frame)
handleConnect(s) ==
  LET s1 == [s EXCEPT !.isConnected = TRUE, !.reconnectAttempts = 0]
      s2 == IF s1.pendingNotificationSubscription
            THEN subscribeToNotifications(
                   [s1 EXCEPT !.pendingNotificationSubscription = FALSE])
            ELSE s1
  IN emitEvent(s2, "connection: connected")

\* the delay of reconnect attempt n
reconnectDelay(n) == Min(ReconnectBaseDelay * 2^n, ReconnectMaxDelay)

\* attemptReconnect(): gives up at maxReconnectAttempts, otherwise counts the
\* attempt and stores a new timeout handle (an earlier pending timeout is not
\* cleared)
attemptReconnect(s) ==
  IF s.reconnectAttempts >= maxReconnectAttempts THEN s
  ELSE [s EXCEPT !.reconnectAttempts = @ + 1,
                 !.staleTimeouts = IF s.reconnectTimeout = "pending"
                                   THEN @ + 1 ELSE @,
                 !.reconnectTimeout = "pending",
                 !.scheduledDelay = reconnectDelay(s.reconnectAttempts + 1)]

\* handleWebSocketClose(event)
handleWebSocketClose(s, code) ==
  LET s1 == emitEvent([s EXCEPT !.isConnected = FALSE],
                      "connection: disconnected")
  IN IF code # NormalClosure THEN attemptReconnect(s1) ELSE s1

---------------------------------------------------------------------------
(* WebSocketService, timer topics *)

\* the handle WebSocketService.subscribeToTaskTimer returns: a dummy while not
\* connected, otherwise the stored or the new unsubscribe object
wsSubscribeHandle(s, t) ==
  IF s.stompClient # "connected" THEN "dummy" ELSE "real"

\* WebSocketService.subscribeToTaskTimer(taskId, callback): nothing while not
\* connected; nothing when the map has the key (the callback is dropped);
\* otherwise SUBSCRIBE with the callback and store the key
wsSubscribeToTaskTimer(s, t, cb) ==
  IF s.stompClient # "connected" THEN s
  ELSE IF t \in s.activeTimerSubscriptions THEN s
  ELSE [s EXCEPT !.wireTimer[t] = cb,
                 !.activeTimerSubscriptions = @ \cup {t}]

\* unsubscribe() of a handle: the unsubscribe object ends the STOMP
\* subscription and deletes the key; the dummy does nothing
handleUnsubscribe(s, t, kind) ==
  IF kind = "real"
  THEN [s EXCEPT !.wireTimer[t] = NoWire,
                 !.activeTimerSubscriptions = @ \ {t}]
  ELSE s

---------------------------------------------------------------------------
(* TimerService *)

\* getTaskRemainingTime(taskId)
getTaskRemainingTime(s, t) ==
  IF s.activeTimers[t].has THEN s.activeTimers[t].remainingTimeMillis ELSE 0

\* hasActiveTimer(taskId)
hasActiveTimer(s, t) ==
  IF s.activeTimers[t].has THEN s.activeTimers[t].timerActive ELSE FALSE

\* a || b on numbers
OrElse(a, b) == IF a # 0 THEN a ELSE b

\* subscribeToTaskTimer(taskId, callback?)
subscribeToTaskTimer(s, t, cb) ==
  IF s.timerSubscriptions[t] # "none"
  THEN IF cb # NoCallback THEN [s EXCEPT !.timerCallbacks[t] = cb] ELSE s
  ELSE LET s1 == wsSubscribeToTaskTimer(s, t, cb)
           s2 == [s1 EXCEPT !.timerSubscriptions[t] = wsSubscribeHandle(s, t)]
       IN IF cb # NoCallback THEN [s2 EXCEPT !.timerCallbacks[t] = cb] ELSE s2

\* subscribeToTaskTimer(id) for each task of a list, without callback
RECURSIVE subscribeEach(_, _)
subscribeEach(s, ids) ==
  IF ids = {} THEN s
  ELSE LET t == CHOOSE x \in ids : TRUE
       IN subscribeEach(subscribeToTaskTimer(s, t, NoCallback), ids \ {t})

\* unsubscribeFromTask(taskId)
unsubscribeFromTask(s, t) ==
  IF s.timerSubscriptions[t] # "none"
  THEN [handleUnsubscribe(s, t, s.timerSubscriptions[t]) EXCEPT
          !.timerSubscriptions[t] = "none",
          !.timerCallbacks[t] = NoCallback]
  ELSE s

\* unsubscribeFromAllTimers()
RECURSIVE unsubscribeEach(_, _)
unsubscribeEach(s, ids) ==
  IF ids = {} THEN s
  ELSE LET t == CHOOSE x \in ids : TRUE
       IN unsubscribeEach(handleUnsubscribe(s, t, s.timerSubscriptions[t]),
                          ids \ {t})

unsubscribeFromAllTimers(s) ==
  [unsubscribeEach(s, {t \in Tasks : s.timerSubscriptions[t] # "none"}) EXCEPT
     !.timerSubscriptions = [t \in Tasks |-> "none"],
     !.timerCallbacks = [t \in Tasks |-> NoCallback]]

\* initializeTimers(tasks); tasks maps the ids of the list to their TaskDto
initializeTimers(s, tasks) ==
  LET s1 == [s EXCEPT !.activeTimers = [t \in Tasks |->
               IF t \in DOMAIN tasks /\ tasks[t].pomodoroTimeMillis # 0
               THEN TimerEntry(OrElse(tasks[t].remainingTimeMillis,
                                      tasks[t].pomodoroTimeMillis),
                               tasks[t].timerActive)
               ELSE s.activeTimers[t]]]
      activeTimerTasks == {t \in DOMAIN tasks :
                             tasks[t].timerActive /\ tasks[t].pomodoroTimeMillis # 0}
  IN subscribeEach(s1, activeTimerTasks)

\* reconnectToActiveTimers()
reconnectToActiveTimers(s) ==
  LET activeTimerTaskIds == {t \in Tasks : s.activeTimers[t].has
                                           /\ s.activeTimers[t].timerActive}
  IN subscribeEach(unsubscribeFromAllTimers(s), activeTimerTaskIds)

\* applyTimerUpdate that never lets a push raise the local value
applyTimerUpdateKeepLower(s, t, m) ==
  [s EXCEPT !.activeTimers[t] =
     TimerEntry(IF s.activeTimers[t].has
                THEN Min(s.activeTimers[t].remainingTimeMillis,
                         m.remainingTimeMillis)
                ELSE m.remainingTimeMillis, m.timerActive)]

\* applyTimerUpdate that drops the update while the local timer is running
applyTimerUpdateUnlessRunning(s, t, m) ==
  IF s.activeTimers[t].has /\ s.activeTimers[t].timerActive THEN s
  ELSE [s EXCEPT !.activeTimers[t] =
          TimerEntry(m.remainingTimeMillis, m.timerActive)]

\* the handler given to WebSocketService.subscribeToTaskTimer: the update
\* replaces the entry of the task
applyTimerUpdate(s, t, m) ==
  [s EXCEPT !.activeTimers[t] = TimerEntry(m.remainingTimeMillis, m.timerActive)]

\* timerMessageHandler that ends the subscription when JSON.parse throws
timerMessageHandlerStrict(s, t, text) ==
  IF parses(text)
  THEN applyTimerUpdate(s, t, JSONparse(text))
  ELSE [s EXCEPT !.wireTimer[t] = NoWire,
                 !.activeTimerSubscriptions = @ \ {t}]

\* the message handler of the STOMP subscription to a timer topic: the body
\* is parsed and the callback is called; a throw is caught and logged
timerMessageHandler(s, t, text) ==
  IF parses(text) THEN applyTimerUpdate(s, t, JSONparse(text)) ELSE s

\* updatePomodoroTime: the milliseconds sent and applied
pomodoroMillis(minutes) == Max(0, Min(MaxMinutes, minutes)) * MillisPerMinute

\* the entry a succeeded command stores; the entry is kept when the returned
\* task has no pomodoroTimeMillis (updatePomodoroTime stores what it sent)
commandEntry(s, c, dto) ==
  CASE c.kind = "updateTimer" -> TimerEntry(c.millis, FALSE)
    [] c.kind = "start" ->
         IF dto.pomodoroTimeMillis # 0
         THEN TimerEntry(OrElse(dto.remainingTimeMillis,
                                dto.pomodoroTimeMillis), TRUE)
         ELSE s.activeTimers[c.task]
    [] c.kind = "pause" ->
         IF dto.pomodoroTimeMillis # 0
         THEN TimerEntry(OrElse(dto.remainingTimeMillis,
                                getTaskRemainingTime(s, c.task)), FALSE)
         ELSE s.activeTimers[c.task]
    [] c.kind = "reset" ->
         IF dto.pomodoroTimeMillis # 0
         THEN TimerEntry(dto.pomodoroTimeMillis, FALSE)
         ELSE s.activeTimers[c.task]

\* applyCommandResult in which startTimer does not subscribe
applyCommandResultNoSubscribe(s, c, dto) ==
  [s EXCEPT !.activeTimers[c.task] = commandEntry(s, c, dto)]

\* the continuation of a timer command after the collaborator returned the
\* task: the entry is stored; startTimer then subscribes to the timer topic
applyCommandResult(s, c, dto) ==
  LET s1 == [s EXCEPT !.activeTimers[c.task] = commandEntry(s, c, dto)]
  IN IF c.kind = "start"
     THEN subscribeToTaskTimer(s1, c.task, NoCallback)
     ELSE s1

\* applyCommandFailure of a method that had applied the command before the
\* await and does not undo it
applyCommandFailureOptimistic(s, c) ==
  [s EXCEPT !.activeTimers[c.task] =
     TimerEntry(getTaskRemainingTime(s, c.task), c.kind = "start")]

\* the continuation of a timer command whose request failed: the await
\* throws, nothing after it runs
applyCommandFailure(s, c) == s

\* tickEntry that decrements without looking at timerActive
tickEntryAlways(e) ==
  IF e.has /\ e.remainingTimeMillis > 0
  THEN LET r == Max(0, e.remainingTimeMillis - TickMillis)
       IN TimerEntry(r, IF r <= 0 THEN FALSE ELSE e.timerActive)
  ELSE e

\* tickEntry that subtracts the period without clamping at zero
tickEntryUnclamped(e) ==
  IF e.has /\ e.timerActive /\ e.remainingTimeMillis > 0
  THEN LET r == e.remainingTimeMillis - TickMillis
       IN TimerEntry(r, IF r <= 0 THEN FALSE ELSE e.timerActive)
  ELSE e

\* one task in one run of the interval callback
tickEntry(e) ==
  IF e.has /\ e.timerActive /\ e.remainingTimeMillis > 0
  THEN LET r == Max(0, e.remainingTimeMillis - TickMillis)
       IN TimerEntry(r, IF r <= 0 THEN FALSE ELSE e.timerActive)
  ELSE e

\* the tasks for which a run of the interval callback reaches zero
tickCompleted(s) ==
  {t \in Tasks : /\ s.activeTimers[t].has /\ s.activeTimers[t].timerActive
                 /\ s.activeTimers[t].remainingTimeMillis > 0
                 /\ tickEntry(s.activeTimers[t]).remainingTimeMillis <= 0}

\* the callbacks a run of the interval callback invokes
tickCalled(s) ==
  {s.timerCallbacks[t] : t \in {x \in Tasks :
       /\ s.activeTimers[x].has /\ s.activeTimers[x].timerActive
       /\ s.activeTimers[x].remainingTimeMillis > 0
       /\ s.timerSubscriptions[x] # "none"
       /\ s.timerCallbacks[x] # NoCallback}}

\* tick that leaves the pause at zero to the server
tickNoPause(s) ==
  [s EXCEPT !.activeTimers = [t \in Tasks |-> tickEntry(s.activeTimers[t])]]

\* one run of the interval callback: every entry is stepped and a pause
\* request is sent for every task that reached zero
tick(s) ==
  [s EXCEPT !.activeTimers = [t \in Tasks |-> tickEntry(s.activeTimers[t])],
            !.bgPause = [t \in Tasks |->
                           IF t \in tickCompleted(s) THEN @[t] + 1 ELSE @[t]]]

\* stopBackgroundTimerInterval()
stopBackgroundTimerInterval(s) ==
  IF s.backgroundTimerInterval
  THEN [s EXCEPT !.backgroundTimerInterval = FALSE]
  ELSE s

\* cleanup()
cleanup(s) == unsubscribeFromAllTimers(stopBackgroundTimerInterval(s))

---------------------------------------------------------------------------
(* TasksView *)

\* fetchTasks(): with tasks in the store only reconnectToActiveTimers();
\* otherwise the fetch is awaited
fetchTasks(s) ==
  IF s.tasksLoaded THEN reconnectToActiveTimers(s)
  ELSE [s EXCEPT !.fetching = @ + 1]

\* the task lists a fetch may return: the timer fields of some of the tasks
FetchResponses ==
  UNION {[ids -> TaskDto] : ids \in SUBSET Focus}

\* fetchTasks() after the awaited fetch: the store has the list and
\* initializeTimers(allTasks) runs
fetchTasksDone(s, resp) ==
  initializeTimers([s EXCEPT !.fetching = @ - 1,
                             !.tasksLoaded = (DOMAIN resp # {})], resp)

\* deleteTask(taskId) of the view after the awaited request: the store drops
\* the task from its list (the only one it holds here); the timer service is
\* not called
deleteTask(s, t) == [s EXCEPT !.tasksLoaded = FALSE]

\* handleVisibilityChange that refreshes from the threshold on
handleVisibilityChangeAtThreshold(s) ==
  IF s.visibilityState = "hidden"
  THEN [s EXCEPT !.documentHiddenTime = s.now]
  ELSE LET s1 == IF /\ s.documentHiddenTime # 0
                    /\ s.now - s.documentHiddenTime >= HiddenThreshold
                 THEN fetchTasks(s)
                 ELSE reconnectToActiveTimers(s)
       IN [s1 EXCEPT !.documentHiddenTime = 0]

\* handleVisibilityChange(): hidden stores the time; visible calls
\* fetchTasks() when the page was hidden for more than the threshold and
\* reconnectToActiveTimers() otherwise, then forgets the time
handleVisibilityChange(s) ==
  IF s.visibilityState = "hidden"
  THEN [s EXCEPT !.documentHiddenTime = s.now]
  ELSE LET s1 == IF /\ s.documentHiddenTime # 0
                    /\ s.now - s.documentHiddenTime > HiddenThreshold
                 THEN fetchTasks(s)
                 ELSE reconnectToActiveTimers(s)
       IN [s1 EXCEPT !.documentHiddenTime = 0]

---------------------------------------------------------------------------
(* Notification store *)

\* a request of the store to the collaborator; id is NoTask when the request
\* is not about one notification
Request(kind, id) == [kind |-> kind, id |-> id]

\* getters.unreadCount that counts every record
unreadCountAll(s) == Len(s.notifications)

\* getters.unreadCount: the length of the list filtered by !read
unreadCount(s) == Len(SelectSeq(s.notifications, LAMBDA n : ~n.read))

\* convertDtoToNotification(dto): a new object with the fields of the dto
convertDtoToNotification(dto) ==
  [id |-> dto.id, message |-> dto.message, read |-> dto.read]

\* handleNewNotification that does not look for the id in the list
handleNewNotificationAlways(s, n) ==
  [s EXCEPT !.notifications = <<convertDtoToNotification(n)>> \o @]

\* handleNewNotification(notification): the object (converted unless it
\* already is a Notification; the fields kept here are the same either way)
\* is put in front of the list unless the list has a record with its id
handleNewNotification(s, n) ==
  LET notificationObj == convertDtoToNotification(n)
      exists == \E i \in DOMAIN s.notifications :
                   s.notifications[i].id = notificationObj.id
  IN IF ~exists
     THEN [s EXCEPT !.notifications = <<notificationObj>> \o @]
     ELSE s

\* the start of an action of the store up to its await: loading is set,
\* error is cleared, the request is sent
sendRequest(s, r) ==
  [s EXCEPT !.notifLoading = TRUE, !.notifError = FALSE,
            !.feedRequests = @ \cup {r}]

\* the catch and finally blocks of an action of the store: error is set,
\* loading is cleared, the error is thrown again
requestFailed(s, r) ==
  [s EXCEPT !.notifError = TRUE, !.notifLoading = FALSE,
            !.feedRequests = @ \ {r}]

\* fetchNotifications() up to the await
fetchNotifications(s) == sendRequest(s, Request("fetch", NoTask))

\* fetchNotificationsDone that puts the response in front of the list it has
fetchNotificationsDoneMerging(s, resp) ==
  [s EXCEPT !.notifications = [i \in DOMAIN resp |->
                                 convertDtoToNotification(resp[i])] \o @,
            !.notifLoading = FALSE,
            !.feedRequests = @ \ {Request("fetch", NoTask)}]

\* fetchNotifications() after the response: the list is replaced by the
\* converted response
fetchNotificationsDone(s, resp) ==
  [s EXCEPT !.notifications = [i \in DOMAIN resp |->
                                 convertDtoToNotification(resp[i])],
            !.notifLoading = FALSE,
            !.feedRequests = @ \ {Request("fetch", NoTask)}]

\* markAsRead that marks the record before the request is answered
markAsReadOptimistic(s, id) ==
  [sendRequest(s, Request("markRead", id)) EXCEPT
     !.notifications = [i \in DOMAIN s.notifications |->
                          IF s.notifications[i].id = id
                          THEN [s.notifications[i] EXCEPT !.read = TRUE]
                          ELSE s.notifications[i]]]

\* markAsRead(notificationId) up to the await
markAsRead(s, id) == sendRequest(s, Request("markRead", id))

\* findIndex(n => n.id === id): 0 when there is none
findIndex(list, id) ==
  IF \E i \in DOMAIN list : list[i].id = id
  THEN CHOOSE i \in DOMAIN list :
         /\ list[i].id = id
         /\ \A j \in DOMAIN list : list[j].id = id => i <= j
  ELSE 0

\* markAsRead(notificationId) after the response: the record at the index
\* of the id is replaced by a copy with read: true
markAsReadDone(s, id) ==
  LET index == findIndex(s.notifications, id)
      s1 == [s EXCEPT !.notifLoading = FALSE,
                      !.feedRequests = @ \ {Request("markRead", id)}]
  IN IF index # 0
     THEN [s1 EXCEPT !.notifications[index] = [@ EXCEPT !.read = TRUE]]
     ELSE s1

\* markAllAsRead() up to the await
markAllAsRead(s) == sendRequest(s, Request("markAllRead", NoTask))

\* markAllAsRead() after the response: every record is replaced by a copy
\* with read: true
markAllAsReadDone(s) ==
  [s EXCEPT !.notifications = [i \in DOMAIN s.notifications |->
                                 [s.notifications[i] EXCEPT !.read = TRUE]],
            !.notifLoading = FALSE,
            !.feedRequests = @ \ {Request("markAllRead", NoTask)}]

\* reset(): websocketService.disconnect(), the list and the error are cleared
reset(s) ==
  [disconnect(s) EXCEPT !.notifications = <<>>, !.notifError = FALSE,
                        !.initialized = FALSE]

\* the end of both branches of initialize(): subscribeToNotifications(), then
\* initialized = true
subscribeAndMark(s) ==
  [subscribeToNotifications(s) EXCEPT !.initialized = TRUE]

\* initialize that subscribes before the list is fetched
initializeSubscribingFirst(s, c) ==
  IF s.initialized THEN [s EXCEPT !.initPhase[c] = "idle"]
  ELSE [subscribeToNotifications(s) EXCEPT
          !.notifLoading = TRUE, !.notifError = FALSE,
          !.initPhase[c] = "fetching"]

\* initialize() called by c, up to the await of fetchNotifications(): nothing
\* when the store is initialized
initialize(s, c) ==
  IF s.initialized THEN [s EXCEPT !.initPhase[c] = "idle"]
  ELSE [s EXCEPT !.notifLoading = TRUE, !.notifError = FALSE,
                 !.initPhase[c] = "fetching"]

\* initialize() from the answer of fetchNotifications() on: the list is
\* replaced, the listener is added, connect() unless connected, then the
\* subscription when the auth store has a user and authStore.fetchUser()
\* otherwise, which returns at once without a token
initializeFetched(s, c, resp) ==
  LET s1 == [s EXCEPT !.notifications = [i \in DOMAIN resp |->
                                           convertDtoToNotification(resp[i])],
                      !.notifLoading = FALSE]
      s2 == [s1 EXCEPT !.listeners = @ + 1]
      s3 == IF ~s2.isConnected THEN connect(s2) ELSE s2
  IN IF s3.user THEN [subscribeAndMark(s3) EXCEPT !.initPhase[c] = "idle"]
     ELSE IF ~s3.token THEN [s3 EXCEPT !.initPhase[c] = "idle"]
     ELSE [s3 EXCEPT !.initPhase[c] = "user"]

\* fetchNotifications() of initialize() fails: error is set and the error is
\* thrown out of initialize(); authStore.fetchUser() catches it and forgets
\* the user
initializeFetchFailed(s, c) ==
  [s EXCEPT !.notifError = TRUE, !.notifLoading = FALSE,
            !.initPhase[c] = "idle",
            !.user = IF c = "auth" THEN FALSE ELSE @]

\* the fetchUser() that initialize() awaits gets the user: it stores the user
\* and calls initialize() itself; when that call returns at once, the outer
\* call goes on, subscribes and sets initialized
initializeUserFetched(s, c) ==
  LET s1 == [s EXCEPT !.user = TRUE]
  IN IF s1.initialized
     THEN [subscribeAndMark(s1) EXCEPT !.initPhase[c] = "idle"]
     ELSE [s1 EXCEPT !.notifLoading = TRUE, !.notifError = FALSE,
                     !.initPhase[c] = "nested"]

\* the fetchUser() that initialize() awaits fails: no user, the outer call
\* logs an error and ends
initializeUserFailed(s, c) ==
  [s EXCEPT !.user = FALSE, !.initPhase[c] = "idle"]

\* the initialize() inside fetchUser() gets its list (the user is stored): it
\* runs to its end, fetchUser() returns and the outer initialize() subscribes
\* and sets initialized as well
initializeNestedFetched(s, c, resp) ==
  [subscribeAndMark(initializeFetched(s, c, resp)) EXCEPT
     !.initPhase[c] = "idle"]

\* the initialize() inside fetchUser() fails: fetchUser() forgets the user and
\* the outer call ends without a subscription
initializeNestedFailed(s, c) ==
  [s EXCEPT !.notifError = TRUE, !.notifLoading = FALSE, !.user = FALSE,
            !.initPhase[c] = "idle"]

---------------------------------------------------------------------------
(* Notification messages *)

\* emitEvent('notification', n): each registered listener is the bound
\* handleNewNotification of the store
RECURSIVE callListeners(_, _, _)
callListeners(s, n, k) ==
  IF k = 0 THEN s ELSE callListeners(handleNewNotification(s, n), n, k - 1)

\* forEach of the watcher: handleNewNotification for the first k records of
\* websocketService.notifications
RECURSIVE handleEach(_, _)
handleEach(s, k) ==
  IF k = 0 THEN s
  ELSE handleNewNotification(handleEach(s, k - 1), s.wsNotifications[k])

\* the watcher of NotificationIcon on websocketService.notifications: every
\* record is handed to the store, then the list is fetched again
iconWatcher(s) ==
  IF s.iconMounted /\ Len(s.wsNotifications) > 0
  THEN fetchNotifications(handleEach(s, Len(s.wsNotifications)))
  ELSE s

\* the message handler of the subscription to the notification topic: the
\* body is parsed, converted, appended to notifications and emitted; the
\* watcher runs on the changed ref; a throw is caught and logged
notificationMessageHandler(s, text) ==
  IF parses(text)
  THEN LET n == convertDtoToNotification(JSONparse(text))
           s1 == [s EXCEPT !.wsNotifications = Append(@, n)]
           s2 == callListeners(emitEvent(s1, "notification"), n, s1.listeners)
       IN iconWatcher(s2)
  ELSE s

---------------------------------------------------------------------------
(* Auth store and NotificationIcon *)

\* fetchUser() up to the await: without a token the user is forgotten
fetchUser(s) ==
  IF ~s.token THEN [s EXCEPT !.user = FALSE]
  ELSE [s EXCEPT !.initPhase["auth"] = "authUser"]

\* fetchUser() after the user arrived: the user is stored and initialize() of
\* the notification store is awaited
fetchUserDone(s) == initialize([s EXCEPT !.user = TRUE], "auth")

\* fetchUser() when the request fails
fetchUserFailed(s) == [s EXCEPT !.user = FALSE, !.initPhase["auth"] = "idle"]

\* logout() after the request succeeded: the tokens are removed, the
\* notification store is reset, the user is forgotten
logout(s) == [reset([s EXCEPT !.token = FALSE]) EXCEPT !.user = FALSE]

\* onMounted of NotificationIcon: initialize() unless the store is initialized
iconMountedHook(s) ==
  LET s1 == [s EXCEPT !.iconMounted = TRUE]
  IN IF ~s1.initialized THEN initialize(s1, "icon") ELSE s1

---------------------------------------------------------------------------
(* Initial state: the singletons are constructed, nobody is logged in *)

Init ==
  /\ stompClient = "null"
  /\ isConnected = FALSE
  /\ reconnectAttempts = 0
  /\ reconnectTimeout = "null"
  /\ staleTimeouts = 0
  /\ pendingNotificationSubscription = FALSE
  /\ activeTimerSubscriptions = {}
  /\ token = FALSE
  /\ wireTimer = [t \in Tasks |-> NoWire]
  /\ wireNotif = 0
  /\ orphans = 0
  /\ activeTimers = [t \in Tasks |-> NoTimer]
  /\ timerSubscriptions = [t \in Tasks |-> "none"]
  /\ timerCallbacks = [t \in Tasks |-> NoCallback]
  /\ backgroundTimerInterval = TRUE
  /\ bgPause = [t \in Tasks |-> 0]
  /\ inflight = {}
  /\ mounted = FALSE
  /\ detailsDialog = FALSE
  /\ tasksLoaded = FALSE
  /\ fetching = 0
  /\ scheduledDelay = 0
  /\ events = {}
  /\ visibilityState = "visible"
  /\ documentHiddenTime = 0
  /\ now = 1
  /\ notifications = <<>>
  /\ notifLoading = FALSE
  /\ notifError = FALSE
  /\ feedRequests = {}
  /\ initialized = FALSE
  /\ initPhase = [c \in InitCallers |-> "idle"]
  /\ user = FALSE
  /\ iconMounted = FALSE
  /\ wsNotifications = <<>>
  /\ listeners = 0
  /\ serverTimers = [t \in Tasks |-> ServerTimerAtStart]
  /\ serverFeed = <<>>
  /\ answers = {}
  /\ pushQueue = <<>>
  /\ last = Op("init", NoTask, {})
  /\ lastPush = [t \in Tasks |-> NoTimer]
  /\ ticksSince = [t \in Tasks |-> 0]
  /\ hiddenFor = -1
  /\ lastIngested = {}
  /\ lastTwo = <<"none", "none">>
  /\ lastResponse = {}

---------------------------------------------------------------------------
(* Actions of the channel and of the STOMP library *)

\* the socket of the current client closes: the connection and the
\* subscriptions made on it are gone, onWebSocketClose runs
WebSocketClose(code) ==
  /\ stompClient \in {"connecting", "connected"}
  /\ Becomes(handleWebSocketClose(
               [Cur EXCEPT !.stompClient = "closed",
                           !.wireTimer = [t \in Tasks |-> NoWire],
                           !.wireNotif = 0], code))
  /\ Did("close", NoTask, {})

\* the library retries on its own after reconnectDelay
LibraryReconnect ==
  /\ stompClient = "closed"
  /\ Becomes([Cur EXCEPT !.stompClient = "connecting"])
  /\ Did("libraryReconnect", NoTask, {})

\* the current client gets CONNECTED: onConnect runs
StompConnected ==
  /\ stompClient = "connecting"
  /\ Becomes(handleConnect([Cur EXCEPT !.stompClient = "connected"]))
  /\ Did("connected", NoTask, {})

\* a replaced client gets CONNECTED: its onConnect is the same handler
OrphanConnected ==
  /\ orphans > 0
  /\ Becomes(handleConnect(Cur))
  /\ Did("orphanConnected", NoTask, {})

\* the socket of a replaced client closes
OrphanClosed(code) ==
  /\ orphans > 0
  /\ Becomes(handleWebSocketClose(Cur, code))
  /\ Did("orphanClosed", NoTask, {})

\* the timeout stored in reconnectTimeout elapses
ReconnectTimeoutElapsed ==
  /\ reconnectTimeout = "pending"
  /\ Becomes(connect([Cur EXCEPT !.reconnectTimeout = "fired"]))
  /\ Did("reconnectTimeout", NoTask, {})

\* a timeout whose handle was overwritten elapses
StaleTimeoutElapsed ==
  /\ staleTimeouts > 0
  /\ Becomes(connect([Cur EXCEPT !.staleTimeouts = @ - 1]))
  /\ Did("staleTimeout", NoTask, {})

\* a well-formed message arrives on /topic/task/{t}/timer
DeliverTimerPush(t, m) ==
  /\ stompClient = "connected"
  /\ wireTimer[t] # NoWire
  /\ Becomes(applyTimerUpdate(Cur, t, m))
  /\ Did("push", t, {wireTimer[t]} \ {NoCallback})

\* the bodies of the frames on a timer topic and on the notification topic
TimerTexts ==
  {stringify(m) : m \in {x \in TimerUpdateDto : x.remainingTimeMillis = 50}}
    \cup {Unparseable}
\* a pushed notification is a new one: it is unread
NotificationTexts ==
  {stringify(n) : n \in {x \in NotificationDto : ~x.read}}
    \cup {Unparseable}

\* a frame arrives on /topic/task/{t}/timer
DeliverTimerMessage(t, text) ==
  /\ stompClient = "connected"
  /\ wireTimer[t] # NoWire
  /\ Becomes(timerMessageHandler(Cur, t, text))
  /\ last' = Op("timerMessage", t, {})
  /\ lastTwo' = <<lastTwo[2],
                  IF parses(text) THEN "timer" ELSE "timer malformed">>
  /\ lastPush' = IF parses(text)
                 THEN [lastPush EXCEPT ![t] =
                         TimerEntry(JSONparse(text).remainingTimeMillis,
                                    JSONparse(text).timerActive)]
                 ELSE lastPush
  /\ UNCHANGED <<ticksSince, hiddenFor, lastIngested, lastResponse>>

\* a frame arrives on /user/queue/notifications for one subscription
DeliverNotificationMessage(text) ==
  /\ stompClient = "connected"
  /\ wireNotif > 0
  /\ Becomes(notificationMessageHandler(Cur, text))
  /\ last' = Op("notificationMessage", NoTask, {})
  /\ lastTwo' = <<lastTwo[2], IF parses(text) THEN "notification"
                                              ELSE "notification malformed">>
  /\ lastIngested' = IF parses(text) THEN {JSONparse(text)} ELSE lastIngested
  /\ UNCHANGED <<lastPush, ticksSince, hiddenFor, lastResponse>>

---------------------------------------------------------------------------
(* Calls of the public methods of WebSocketService *)

Connect ==
  /\ Becomes(connect(Cur))
  /\ Did("connect", NoTask, {})

Disconnect ==
  /\ Becomes(disconnect(Cur))
  /\ Did("disconnect", NoTask, {})

SubscribeToNotifications ==
  /\ Becomes(subscribeToNotifications(Cur))
  /\ Did("subscribeToNotifications", NoTask, {})

\* login stores the token, logout removes it
StoreToken ==
  /\ ~token
  /\ Becomes([Cur EXCEPT !.token = TRUE])
  /\ Did("storeToken", NoTask, {})

RemoveToken ==
  /\ token
  /\ Becomes([Cur EXCEPT !.token = FALSE])
  /\ Did("removeToken", NoTask, {})

---------------------------------------------------------------------------
(* TimerService *)

\* the interval callback runs
Tick ==
  /\ backgroundTimerInterval
  /\ Becomes(tick(Cur))
  /\ Did("tick", NoTask, tickCalled(Cur))

\* the answer to a pause request of the interval arrives; the result is
\* dropped, an error is only logged
BgPauseAnswered(t) ==
  /\ bgPause[t] > 0
  /\ Becomes([Cur EXCEPT !.bgPause[t] = @ - 1])
  /\ Did("bgPauseAnswered", t, {})

SubscribeToTaskTimer(t, cb) ==
  /\ Becomes(subscribeToTaskTimer(Cur, t, cb))
  /\ Did("subscribe", t, {})

UnsubscribeFromTask(t) ==
  /\ Becomes(unsubscribeFromTask(Cur, t))
  /\ Did("unsubscribe", t, {})

\* a caller invokes unsubscribe() of the handle subscribeToTaskTimer returned
HandleUnsubscribe(t) ==
  /\ timerSubscriptions[t] # "none"
  /\ Becomes(handleUnsubscribe(Cur, t, timerSubscriptions[t]))
  /\ Did("handleUnsubscribe", t, {})

Command(kind, t, millis) == [kind |-> kind, task |-> t, millis |-> millis]

\* startTimer / pauseTimer / resetTimer up to the await
IssueCommand(kind, t) ==
  /\ Command(kind, t, 0) \notin inflight
  /\ Becomes([Cur EXCEPT !.inflight = @ \cup {Command(kind, t, 0)}])
  /\ Did(kind, t, {})

\* updatePomodoroTime up to the await; rejected at once when !minutes
UpdatePomodoroTime(t, minutes) ==
  IF minutes = 0
  THEN /\ Becomes(Cur)
       /\ Did("updateTimerFail", t, {})
  ELSE /\ Command("updateTimer", t, pomodoroMillis(minutes)) \notin inflight
       /\ Becomes([Cur EXCEPT !.inflight =
                      @ \cup {Command("updateTimer", t, pomodoroMillis(minutes))}])
       /\ Did("updateTimer", t, {})

OkName(kind) ==
  CASE kind = "start" -> "startOk" [] kind = "pause" -> "pauseOk"
    [] kind = "reset" -> "resetOk" [] kind = "updateTimer" -> "updateTimerOk"

FailName(kind) ==
  CASE kind = "start" -> "startFail" [] kind = "pause" -> "pauseFail"
    [] kind = "reset" -> "resetFail" [] kind = "updateTimer" -> "updateTimerFail"

\* the collaborator returns the task: the method resumes and resolves
CommandSucceeds(c, dto) ==
  /\ c \in inflight
  /\ Becomes(applyCommandResult([Cur EXCEPT !.inflight = @ \ {c}], c, dto))
  /\ Did(OkName(c.kind), c.task, {})

\* the request fails: the method rejects
CommandFails(c) ==
  /\ c \in inflight
  /\ Becomes(applyCommandFailure([Cur EXCEPT !.inflight = @ \ {c}], c))
  /\ Did(FailName(c.kind), c.task, {})

---------------------------------------------------------------------------
(* The timer collaborator: the server keeps the timer of a task, sends the  *)
(* new state to the timer topic whenever it changes and returns it to the   *)
(* caller of a command                                                     *)

\* the update the server sends to the timer topic of t
timerFrame(s, t, st) ==
  IF s.wireTimer[t] # NoWire
  THEN <<Frame(t, stringify([remainingTimeMillis |-> st.remainingTimeMillis,
                            timerActive |-> st.timerActive]))>>
  ELSE <<>>

\* another user or device changes the timer of t to st
OtherDevice(t, st) ==
  /\ st # serverTimers[t]
  /\ Becomes([Cur EXCEPT !.serverTimers[t] = st,
                         !.pushQueue = @ \o timerFrame(Cur, t, st)])
  /\ Did("otherDevice", t, {})

\* the server handles a command of this client: the timer of the task
\* becomes st (running after start, not running after pause), the update is
\* sent to the topic and the task is returned
ServerHandles(c, st) ==
  /\ c \in inflight
  /\ \A a \in answers : a.req # c
  /\ st.timerActive = (c.kind = "start")
  /\ Becomes([Cur EXCEPT !.serverTimers[c.task] = st,
                         !.pushQueue = @ \o timerFrame(Cur, c.task, st),
                         !.answers = @ \cup {[req |-> c, dto |-> st]}])
  /\ Did("serverHandles", c.task, {})

\* the oldest frame arrives: the message handler of its topic runs
TimerPushArrives ==
  /\ pushQueue # <<>>
  /\ stompClient = "connected"
  /\ LET f == Head(pushQueue)
     IN /\ wireTimer[f.topic] # NoWire
        /\ Becomes(timerMessageHandler(
                     [Cur EXCEPT !.pushQueue = Tail(@)], f.topic, f.body))
        /\ last' = Op("timerMessage", f.topic, {})
        /\ lastTwo' = <<lastTwo[2], "timer">>
        /\ lastPush' = [lastPush EXCEPT ![f.topic] =
                          TimerEntry(JSONparse(f.body).remainingTimeMillis,
                                     JSONparse(f.body).timerActive)]
  /\ UNCHANGED <<ticksSince, hiddenFor, lastIngested, lastResponse>>

\* the response of a handled command arrives: the method resumes
ResponseArrives(a) ==
  /\ a \in answers
  /\ Becomes(applyCommandResult(
               [Cur EXCEPT !.inflight = @ \ {a.req},
                           !.answers = @ \ {a}], a.req, a.dto))
  /\ last' = Op(OkName(a.req.kind), a.req.task, {})
  /\ lastTwo' = <<lastTwo[2], OkName(a.req.kind)>>
  /\ lastResponse' = {a.dto}
  /\ UNCHANGED <<lastPush, ticksSince, hiddenFor, lastIngested>>

---------------------------------------------------------------------------
(* The notification collaborator: the server keeps the notifications of    *)
(* the user, sends each new one to the notification topic and answers the  *)
(* requests of the store                                                   *)

\* the server creates a notification for the user: it is unread, it has the
\* next id, and it is sent to the subscriptions of the user
ServerCreates(n) ==
  /\ ~n.read
  /\ n.id = NextIds[Len(serverFeed) + 1]
  /\ Becomes([Cur EXCEPT
       !.serverFeed = <<n>> \o @,
       !.pushQueue = IF wireNotif > 0
                     THEN Append(@, Frame("notifications", stringify(n)))
                     ELSE @])
  /\ Did("serverCreates", n.id, {})

\* the oldest frame arrives on the notification topic
NotificationPushArrives ==
  /\ pushQueue # <<>>
  /\ stompClient = "connected"
  /\ wireNotif > 0
  /\ LET f == Head(pushQueue)
     IN /\ Becomes(notificationMessageHandler(
                     [Cur EXCEPT !.pushQueue = Tail(@)], f.body))
        /\ lastIngested' = {JSONparse(f.body)}
  /\ last' = Op("notificationMessage", NoTask, {})
  /\ lastTwo' = <<lastTwo[2], "notification">>
  /\ UNCHANGED <<lastPush, ticksSince, hiddenFor, lastResponse>>

\* the server handles GET /notifications: the response is the list as it is
\* now
ServerAnswersFetch ==
  /\ Request("fetch", NoTask) \in feedRequests
  /\ \A a \in answers : a.req # Request("fetch", NoTask)
  /\ Becomes([Cur EXCEPT !.answers =
                 @ \cup {[req |-> Request("fetch", NoTask),
                          dto |-> serverFeed]}])
  /\ Did("serverAnswersFetch", NoTask, {})

\* the server handles POST /notifications/{id}/read
ServerMarksRead(id) ==
  /\ Request("markRead", id) \in feedRequests
  /\ \A a \in answers : a.req # Request("markRead", id)
  /\ Becomes([Cur EXCEPT
       !.serverFeed = [i \in DOMAIN @ |->
                         IF @[i].id = id THEN [@[i] EXCEPT !.read = TRUE]
                         ELSE @[i]],
       !.answers = @ \cup {[req |-> Request("markRead", id), dto |-> <<>>]}])
  /\ Did("serverMarksRead", id, {})

\* a response of the server arrives: the action of the store resumes
FeedResponseArrives(a) ==
  /\ a \in answers
  /\ LET s == [Cur EXCEPT !.answers = @ \ {a}]
     IN IF a.req.kind = "fetch"
        THEN /\ Becomes(fetchNotificationsDone(s, a.dto))
             /\ Did("fetchNotificationsOk", NoTask, {})
        ELSE /\ Becomes(markAsReadDone(s, a.req.id))
             /\ Did("markReadOk", a.req.id, {})

---------------------------------------------------------------------------
(* TasksView *)

\* onMounted: fetchTasks(); the component instance is new, its
\* documentHiddenTime is null
Mount ==
  /\ ~mounted
  /\ Becomes(fetchTasks([Cur EXCEPT !.mounted = TRUE,
                                    !.documentHiddenTime = 0]))
  /\ Did("mount", NoTask, {})

\* onUnmounted: timerService.cleanup()
Unmount ==
  /\ mounted
  /\ Becomes(cleanup([Cur EXCEPT !.mounted = FALSE, !.detailsDialog = FALSE]))
  /\ Did("unmount", NoTask, {})

\* watch(taskTypeFilter): fetchTasks()
FilterChanged ==
  /\ mounted
  /\ Becomes(fetchTasks(Cur))
  /\ Did("filterChanged", NoTask, {})

FetchTasksDone(resp) ==
  /\ fetching > 0
  /\ Becomes(fetchTasksDone(Cur, resp))
  /\ Did("fetchDone", NoTask, {})

\* the fetch fails: the error is logged
FetchTasksFails ==
  /\ fetching > 0
  /\ Becomes([Cur EXCEPT !.fetching = @ - 1])
  /\ Did("fetchFail", NoTask, {})

\* the page becomes hidden or visible; the listener is attached while the
\* view is mounted
VisibilityChange(v) ==
  /\ visibilityState # v
  /\ Becomes(IF mounted
             THEN handleVisibilityChange([Cur EXCEPT !.visibilityState = v])
             ELSE [Cur EXCEPT !.visibilityState = v])
  /\ last' = Op(v, NoTask, {})
  /\ hiddenFor' = IF v = "visible" /\ mounted /\ documentHiddenTime # 0
                  THEN now - documentHiddenTime ELSE -1
  /\ UNCHANGED <<lastPush, ticksSince, lastIngested, lastTwo, lastResponse>>

\* the user deletes a task of the list and the request succeeds
DeleteTaskDone(t) ==
  /\ mounted
  /\ tasksLoaded
  /\ Becomes(deleteTask(Cur, t))
  /\ Did("deleteTaskOk", t, {})

\* d ms pass
TimePasses(d) ==
  /\ Becomes([Cur EXCEPT !.now = @ + d])
  /\ Did("timePasses", NoTask, {})

\* openTaskDetailsDialog(task)
OpenDetails ==
  /\ mounted /\ ~detailsDialog
  /\ Becomes([Cur EXCEPT !.detailsDialog = TRUE])
  /\ Did("openDetails", NoTask, {})

\* the dialog closes: watch(detailsDialog) only logs
CloseDetails ==
  /\ mounted /\ detailsDialog
  /\ Becomes([Cur EXCEPT !.detailsDialog = FALSE])
  /\ Did("closeDetails", NoTask, {})

---------------------------------------------------------------------------
(* Notification store *)

\* the 'notification' listener of the store is called with a record
Ingest(n) ==
  /\ Becomes(handleNewNotification(Cur, n))
  /\ last' = Op("ingest", n.id, {})
  /\ lastIngested' = {n}
  /\ UNCHANGED <<lastPush, ticksSince, hiddenFor, lastTwo, lastResponse>>

FetchNotifications ==
  /\ Request("fetch", NoTask) \notin feedRequests
  /\ Becomes(fetchNotifications(Cur))
  /\ Did("fetchNotifications", NoTask, {})

FetchNotificationsDone(resp) ==
  /\ Request("fetch", NoTask) \in feedRequests
  /\ Becomes(fetchNotificationsDone(Cur, resp))
  /\ Did("fetchNotificationsOk", NoTask, {})

MarkAsRead(id) ==
  /\ Request("markRead", id) \notin feedRequests
  /\ Becomes(markAsRead(Cur, id))
  /\ Did("markRead", id, {})

MarkAsReadDone(id) ==
  /\ Request("markRead", id) \in feedRequests
  /\ Becomes(markAsReadDone(Cur, id))
  /\ Did("markReadOk", id, {})

MarkAllAsRead ==
  /\ Request("markAllRead", NoTask) \notin feedRequests
  /\ Becomes(markAllAsRead(Cur))
  /\ Did("markAllRead", NoTask, {})

MarkAllAsReadDone ==
  /\ Request("markAllRead", NoTask) \in feedRequests
  /\ Becomes(markAllAsReadDone(Cur))
  /\ Did("markAllReadOk", NoTask, {})

FailedName(kind) ==
  CASE kind = "fetch" -> "fetchNotificationsFail"
    [] kind = "markRead" -> "markReadFail"
    [] kind = "markAllRead" -> "markAllReadFail"

\* the request fails: the action of the store rejects
RequestFails(r) ==
  /\ r \in feedRequests
  /\ Becomes(requestFailed(Cur, r))
  /\ Did(FailedName(r.kind), r.id, {})

\* reset() at logout; responses of requests still in flight arrive later
Reset ==
  /\ Becomes(reset(Cur))
  /\ Did("reset", NoTask, {})

---------------------------------------------------------------------------
(* Session: fetchUser, the notification icon, initialize, logout *)

\* the lists the fetch of initialize() returns
InitialLists == {<<>>, <<[id |-> "n1", read |-> FALSE, message |-> "a"]>>}

FetchUser ==
  /\ initPhase["auth"] = "idle"
  /\ Becomes(fetchUser(Cur))
  /\ Did("fetchUser", NoTask, {})

FetchUserDone ==
  /\ initPhase["auth"] = "authUser"
  /\ Becomes(fetchUserDone(Cur))
  /\ Did("fetchUserOk", "auth", {})

FetchUserFails ==
  /\ initPhase["auth"] = "authUser"
  /\ Becomes(fetchUserFailed(Cur))
  /\ Did("fetchUserFail", "auth", {})

IconMount ==
  /\ ~iconMounted
  /\ initPhase["icon"] = "idle"
  /\ Becomes(iconMountedHook(Cur))
  /\ Did("iconMount", "icon", {})

IconUnmount ==
  /\ iconMounted
  /\ Becomes([Cur EXCEPT !.iconMounted = FALSE])
  /\ Did("iconUnmount", "icon", {})

InitFetchDone(c, resp) ==
  /\ initPhase[c] = "fetching"
  /\ Becomes(initializeFetched(Cur, c, resp))
  /\ Did("initFetchOk", c, {})

InitFetchFails(c) ==
  /\ initPhase[c] = "fetching"
  /\ Becomes(initializeFetchFailed(Cur, c))
  /\ Did("initFetchFail", c, {})

InitUserDone(c) ==
  /\ initPhase[c] = "user"
  /\ Becomes(initializeUserFetched(Cur, c))
  /\ Did("initUserOk", c, {})

InitUserFails(c) ==
  /\ initPhase[c] = "user"
  /\ Becomes(initializeUserFailed(Cur, c))
  /\ Did("initUserFail", c, {})

\* deeper nesting (the user forgotten again while the inner call waits) is
\* left out
InitNestedDone(c, resp) ==
  /\ initPhase[c] = "nested"
  /\ user
  /\ Becomes(initializeNestedFetched(Cur, c, resp))
  /\ Did("initNestedOk", c, {})

InitNestedFails(c) ==
  /\ initPhase[c] = "nested"
  /\ Becomes(initializeNestedFailed(Cur, c))
  /\ Did("initNestedFail", c, {})

Logout ==
  /\ token
  /\ Becomes(logout(Cur))
  /\ Did("logout", NoTask, {})

\* the lists a fetch may return: up to MaxFetched records with distinct ids
FetchedLists ==
  {l \in UNION {[1..n -> NotificationDto] : n \in 0..MaxFetched} :
     \A i, j \in DOMAIN l : l[i].id = l[j].id => i = j}

Requests ==
  {Request("fetch", NoTask), Request("markAllRead", NoTask)}
    \cup {Request("markRead", id) : id \in NotificationIds}

---------------------------------------------------------------------------
CommandKinds == {"start", "pause", "reset"}

Commands ==
  {Command(k, t, 0) : k \in CommandKinds, t \in Focus}
    \cup {Command("updateTimer", t, pomodoroMillis(m)) :
            t \in Focus, m \in MinuteValues \ {0}}

(***************************************************************************)
(* Spec: TimerService (interval, pushes, commands, subscriptions) over a   *)
(* channel that connects, closes and reconnects.  What the timers see of a *)
(* closure (the connection and its subscriptions are gone) does not depend *)
(* on the close code, so the closures here are normal ones; the reconnect  *)
(* bookkeeping of abnormal closures is explored in SpecChannel.            *)
(***************************************************************************)
Next ==
  \/ StoreToken
  \/ Connect
  \/ StompConnected
  \/ WebSocketClose(NormalClosure)
  \/ LibraryReconnect
  \/ Disconnect
  \/ \E t \in Focus, m \in TimerUpdateDto : DeliverTimerPush(t, m)
  \/ Tick
  \/ \E t \in Focus : BgPauseAnswered(t)
  \/ \E t \in Focus : SubscribeToTaskTimer(t, NoCallback)
  \/ \E t \in Focus : UnsubscribeFromTask(t)
  \/ \E t \in Focus : HandleUnsubscribe(t)
  \/ \E k \in CommandKinds, t \in Focus : IssueCommand(k, t)
  \/ \E t \in Focus, m \in MinuteValues : UpdatePomodoroTime(t, m)
  \/ \E c \in Commands, dto \in TaskDto : CommandSucceeds(c, dto)
  \/ \E c \in Commands : CommandFails(c)

Spec == Init /\ [][Next]_vars

(***************************************************************************)
(* SpecView: the life cycle of TasksView (mount, unmount, fetchTasks, the  *)
(* detail dialog) with the interval, the pushes and the start command.     *)
(***************************************************************************)
NextView ==
  \/ StoreToken
  \/ Connect
  \/ StompConnected
  \/ WebSocketClose(NormalClosure)
  \/ Mount
  \/ Unmount
  \/ FilterChanged
  \/ \E resp \in FetchResponses : FetchTasksDone(resp)
  \/ FetchTasksFails
  \/ OpenDetails
  \/ CloseDetails
  \/ \E t \in Focus, m \in TimerUpdateDto : DeliverTimerPush(t, m)
  \/ Tick
  \/ \E t \in Focus : BgPauseAnswered(t)
  \/ \E t \in Focus : IssueCommand("start", t)
  \/ \E c \in Commands, dto \in TaskDto : CommandSucceeds(c, dto)
  \/ \E c \in Commands : CommandFails(c)

SpecView == Init /\ [][NextView]_vars

(***************************************************************************)
(* SpecDelete: SpecView with the deletion of the task.                     *)
(***************************************************************************)
NextDelete ==
  \/ NextView
  \/ \E t \in Focus : DeleteTaskDone(t)

SpecDelete == Init /\ [][NextDelete]_vars

(***************************************************************************)
(* SpecVisibility: the page is hidden and shown again while TasksView is   *)
(* mounted or not, with the task fetch, the interval and the pushes.       *)
(***************************************************************************)
NextVisibility ==
  \/ StoreToken
  \/ Connect
  \/ StompConnected
  \/ Mount
  \/ Unmount
  \/ \E resp \in FetchResponses : FetchTasksDone(resp)
  \/ FetchTasksFails
  \/ \E v \in {"hidden", "visible"} : VisibilityChange(v)
  \/ \E d \in ClockSteps : TimePasses(d)
  \/ \E t \in Focus, m \in TimerUpdateDto : DeliverTimerPush(t, m)
  \/ Tick
  \/ \E t \in Focus : BgPauseAnswered(t)

SpecVisibility == Init /\ [][NextVisibility]_vars

(***************************************************************************)
(* SpecChannel: the whole connection life cycle of WebSocketService with   *)
(* the notification subscription and the timer-topic subscriptions of one  *)
(* task, callbacks included.                                               *)
(***************************************************************************)
\* the updates pushed in SpecChannel
ChannelPushes == {[remainingTimeMillis |-> 200, timerActive |-> TRUE]}

NextChannel ==
  \/ StoreToken
  \/ RemoveToken
  \/ Connect
  \/ Disconnect
  \/ SubscribeToNotifications
  \/ StompConnected
  \/ \E code \in CloseCodes : WebSocketClose(code)
  \/ LibraryReconnect
  \/ OrphanConnected
  \/ \E code \in CloseCodes : OrphanClosed(code)
  \/ ReconnectTimeoutElapsed
  \/ StaleTimeoutElapsed
  \/ \E t \in Focus, cb \in Callbacks \cup {NoCallback} : SubscribeToTaskTimer(t, cb)
  \/ \E t \in Focus : UnsubscribeFromTask(t)
  \/ \E t \in Focus : HandleUnsubscribe(t)
  \/ \E t \in Focus, m \in ChannelPushes : DeliverTimerPush(t, m)

SpecChannel == Init /\ [][NextChannel]_vars

(***************************************************************************)
(* SpecConnection: the connection life cycle of WebSocketService alone:    *)
(* connect, disconnect, closures, the reconnect timeouts, the retries of   *)
(* the library, replaced clients, the notification subscription.           *)
(***************************************************************************)
NextConnection ==
  \/ StoreToken
  \/ RemoveToken
  \/ Connect
  \/ Disconnect
  \/ SubscribeToNotifications
  \/ StompConnected
  \/ \E code \in CloseCodes : WebSocketClose(code)
  \/ LibraryReconnect
  \/ OrphanConnected
  \/ \E code \in CloseCodes : OrphanClosed(code)
  \/ ReconnectTimeoutElapsed
  \/ StaleTimeoutElapsed

SpecConnection == Init /\ [][NextConnection]_vars

(***************************************************************************)
(* SpecFeed: the notification store: records arriving from the live topic, *)
(* fetches of the list, markAsRead and markAllAsRead with their responses  *)
(* in any order, reset.                                                    *)
(***************************************************************************)
NextFeed ==
  \/ \E n \in NotificationDto : Ingest(n)
  \/ FetchNotifications
  \/ \E resp \in FetchedLists : FetchNotificationsDone(resp)
  \/ \E id \in NotificationIds : MarkAsRead(id)
  \/ \E id \in NotificationIds : MarkAsReadDone(id)
  \/ MarkAllAsRead
  \/ MarkAllAsReadDone
  \/ \E r \in Requests : RequestFails(r)
  \/ Reset

SpecFeed == Init /\ [][NextFeed]_vars

(***************************************************************************)
(* SpecInit: the start of a session: login stores the token, fetchUser and *)
(* the notification icon call initialize() of the notification store, the  *)
(* channel connects, logout resets.                                        *)
(***************************************************************************)
NextInit ==
  \/ StoreToken
  \/ FetchUser
  \/ FetchUserDone
  \/ FetchUserFails
  \/ IconMount
  \/ IconUnmount
  \/ \E c \in InitCallers, resp \in InitialLists : InitFetchDone(c, resp)
  \/ \E c \in InitCallers : InitFetchFails(c)
  \/ \E c \in InitCallers : InitUserDone(c)
  \/ \E c \in InitCallers : InitUserFails(c)
  \/ \E c \in InitCallers, resp \in InitialLists : InitNestedDone(c, resp)
  \/ \E c \in InitCallers : InitNestedFails(c)
  \/ StompConnected
  \/ Logout

SpecInit == Init /\ [][NextInit]_vars

(***************************************************************************)
(* SpecMessages: a session is started, the timer topic of a task and the   *)
(* notification topic are subscribed, and frames with any body arrive.     *)
(***************************************************************************)
NextMessages ==
  \/ StoreToken
  \/ FetchUser
  \/ FetchUserDone
  \/ \E resp \in InitialLists : InitFetchDone("auth", resp)
  \/ StompConnected
  \/ IconMount
  \/ \E t \in Focus : SubscribeToTaskTimer(t, NoCallback)
  \/ \E t \in Focus, text \in TimerTexts : DeliverTimerMessage(t, text)
  \/ \E text \in NotificationTexts : DeliverNotificationMessage(text)
  \/ \E resp \in InitialLists : FetchNotificationsDone(resp)

SpecMessages == Init /\ [][NextMessages]_vars

\* the responses the server may have on their way
Answers == [req : Commands, dto : ServerStates]

(***************************************************************************)
(* SpecReorder: the timer of one task with the server: commands of this    *)
(* client and changes by other devices are handled by the server in some   *)
(* order; the frames of the timer topic and the responses of the commands  *)
(* travel separately and arrive in any relative order.                     *)
(***************************************************************************)
NextReorder ==
  \/ StoreToken
  \/ Connect
  \/ StompConnected
  \/ \E t \in Focus : SubscribeToTaskTimer(t, NoCallback)
  \/ \E k \in {"start", "pause"}, t \in Focus : IssueCommand(k, t)
  \/ \E t \in Focus, st \in ServerStates : OtherDevice(t, st)
  \/ \E c \in Commands, st \in ServerStates : ServerHandles(c, st)
  \/ TimerPushArrives
  \/ \E a \in Answers : ResponseArrives(a)

SpecReorder == Init /\ [][NextReorder]_vars

(***************************************************************************)
(* SpecFeedServer: the feed of a started session with the server: the      *)
(* session is initialized with an empty feed, the channel is connected and *)
(* the notification topic subscribed, the icon is mounted.  The server     *)
(* creates notifications and answers the requests; frames and responses    *)
(* travel separately.                                                      *)
(***************************************************************************)
InitSession ==
  /\ stompClient = "connected"
  /\ isConnected = TRUE
  /\ reconnectAttempts = 0
  /\ reconnectTimeout = "null"
  /\ staleTimeouts = 0
  /\ pendingNotificationSubscription = FALSE
  /\ activeTimerSubscriptions = {}
  /\ token = TRUE
  /\ wireTimer = [t \in Tasks |-> NoWire]
  /\ wireNotif = 1
  /\ orphans = 0
  /\ activeTimers = [t \in Tasks |-> NoTimer]
  /\ timerSubscriptions = [t \in Tasks |-> "none"]
  /\ timerCallbacks = [t \in Tasks |-> NoCallback]
  /\ backgroundTimerInterval = FALSE
  /\ bgPause = [t \in Tasks |-> 0]
  /\ inflight = {}
  /\ mounted = FALSE
  /\ detailsDialog = FALSE
  /\ tasksLoaded = FALSE
  /\ fetching = 0
  /\ scheduledDelay = 0
  /\ events = {}
  /\ visibilityState = "visible"
  /\ documentHiddenTime = 0
  /\ now = 1
  /\ notifications = <<>>
  /\ notifLoading = FALSE
  /\ notifError = FALSE
  /\ feedRequests = {}
  /\ initialized = TRUE
  /\ initPhase = [c \in InitCallers |-> "idle"]
  /\ user = TRUE
  /\ iconMounted = TRUE
  /\ wsNotifications = <<>>
  /\ listeners = 1
  /\ serverTimers = [t \in Tasks |-> ServerTimerAtStart]
  /\ serverFeed = <<>>
  /\ answers = {}
  /\ pushQueue = <<>>
  /\ last = Op("init", NoTask, {})
  /\ lastPush = [t \in Tasks |-> NoTimer]
  /\ ticksSince = [t \in Tasks |-> 0]
  /\ hiddenFor = -1
  /\ lastIngested = {}
  /\ lastTwo = <<"none", "none">>
  /\ lastResponse = {}

\* the responses to the store the server may have on their way
FeedAnswers ==
  {a \in [req : Requests, dto : FetchedLists] :
     a.req.kind # "markAllRead" /\ (a.req.kind = "markRead" => a.dto = <<>>)}

NextFeedServer ==
  \/ \E n \in NotificationDto : ServerCreates(n)
  \/ NotificationPushArrives
  \/ FetchNotifications
  \/ ServerAnswersFetch
  \/ \E id \in NotificationIds : MarkAsRead(id)
  \/ \E id \in NotificationIds : ServerMarksRead(id)
  \/ \E a \in FeedAnswers : FeedResponseArrives(a)

SpecFeedServer == InitSession /\ [][NextFeedServer]_vars

(***************************************************************************)
(* SpecTickPush: every interleaving of interval runs and pushes for the    *)
(* tasks of Tasks, from any state in which the channel is connected and    *)
(* the timer topics are subscribed.  lastPush and ticksSince record the    *)
(* update of the last push and the interval runs after it.                 *)
(***************************************************************************)
TimerEntries ==
  {NoTimer} \cup {TimerEntry(r, a) : r \in RemValues, a \in BOOLEAN}

InitTickPush ==
  /\ stompClient = "connected"
  /\ isConnected = TRUE
  /\ reconnectAttempts = 0
  /\ reconnectTimeout = "null"
  /\ staleTimeouts = 0
  /\ pendingNotificationSubscription = FALSE
  /\ activeTimerSubscriptions = Tasks
  /\ token = TRUE
  /\ wireTimer = [t \in Tasks |-> NoCallback]
  /\ wireNotif = 0
  /\ orphans = 0
  /\ activeTimers \in [Tasks -> TimerEntries]
  /\ timerSubscriptions = [t \in Tasks |-> "real"]
  /\ timerCallbacks = [t \in Tasks |-> NoCallback]
  /\ backgroundTimerInterval = TRUE
  /\ bgPause = [t \in Tasks |-> 0]
  /\ inflight = {}
  /\ mounted = TRUE
  /\ detailsDialog = FALSE
  /\ tasksLoaded = TRUE
  /\ fetching = 0
  /\ scheduledDelay = 0
  /\ events = {}
  /\ visibilityState = "visible"
  /\ documentHiddenTime = 0
  /\ now = 1
  /\ notifications = <<>>
  /\ notifLoading = FALSE
  /\ notifError = FALSE
  /\ feedRequests = {}
  /\ initialized = FALSE
  /\ initPhase = [c \in InitCallers |-> "idle"]
  /\ user = FALSE
  /\ iconMounted = FALSE
  /\ wsNotifications = <<>>
  /\ listeners = 0
  /\ serverTimers = [t \in Tasks |-> ServerTimerAtStart]
  /\ serverFeed = <<>>
  /\ answers = {}
  /\ pushQueue = <<>>
  /\ last = Op("init", NoTask, {})
  /\ lastPush = [t \in Tasks |-> NoTimer]
  /\ ticksSince = [t \in Tasks |-> 0]
  /\ hiddenFor = -1
  /\ lastIngested = {}
  /\ lastTwo = <<"none", "none">>
  /\ lastResponse = {}

\* DeliverTimerPush, observed
PushObserved(t, m) ==
  /\ stompClient = "connected"
  /\ wireTimer[t] # NoWire
  /\ Becomes(applyTimerUpdate(Cur, t, m))
  /\ lastPush' = [lastPush EXCEPT ![t] =
                    TimerEntry(m.remainingTimeMillis, m.timerActive)]
  /\ ticksSince' = [ticksSince EXCEPT ![t] = 0]
  /\ UNCHANGED <<last, hiddenFor, lastIngested, lastTwo, lastResponse>>

\* Tick, observed
TickObserved ==
  /\ backgroundTimerInterval
  /\ Becomes(tick(Cur))
  /\ ticksSince' = [t \in Tasks |-> Min(MaxTicksCounted, ticksSince[t] + 1)]
  /\ UNCHANGED <<last, lastPush, hiddenFor, lastIngested, lastTwo, lastResponse>>

\* BgPauseAnswered, observed
PauseAnsweredObserved(t) ==
  /\ bgPause[t] > 0
  /\ Becomes([Cur EXCEPT !.bgPause[t] = @ - 1])
  /\ UNCHANGED <<last, lastPush, ticksSince, hiddenFor, lastIngested, lastTwo, lastResponse>>

NextTickPush ==
  \/ \E t \in Tasks, m \in TimerUpdateDto : PushObserved(t, m)
  \/ TickObserved
  \/ \E t \in Tasks : PauseAnsweredObserved(t)

SpecTickPush == InitTickPush /\ [][NextTickPush]_vars

---------------------------------------------------------------------------
(* Properties *)

\* the task has a Running timer with time left
Running(t) ==
  /\ activeTimers[t].has
  /\ activeTimers[t].timerActive
  /\ activeTimers[t].remainingTimeMillis > 0

\* the subscriptions to timer topics, at every level
timerSubscriptionState ==
  <<timerSubscriptions, timerCallbacks, activeTimerSubscriptions, wireTimer>>

\* C1: when a push {remainingTimeMillis: r, timerActive: a} on the timer topic
\* of task t is processed, the entry of t is exactly (r, a) afterwards,
\* whatever it was before.
C1_PushReplacesTimerState ==
  [][\A t \in Tasks, m \in TimerUpdateDto :
       DeliverTimerPush(t, m) =>
         activeTimers'[t] = [has |-> TRUE,
                             remainingTimeMillis |-> m.remainingTimeMillis,
                             timerActive |-> m.timerActive]]_vars

\* a push of (200, running) was processed for t1
C1_Witness ==
  /\ last.op = "push" /\ last.task = "t1"
  /\ activeTimers["t1"] = TimerEntry(200, TRUE)

\* C2 as stated: once a push was processed for a task, its remaining time is
\* the value of the most recently processed push, whatever interval runs and
\* pushes were interleaved.
C2_RemainingIsLastPush ==
  \A t \in Tasks :
    lastPush[t].has =>
      activeTimers[t].remainingTimeMillis = lastPush[t].remainingTimeMillis

\* C2 amended: once a push was processed for a task, its remaining time is the
\* value of the most recently processed push, less TickMillis for every
\* interval run after that push if the push said Running, not below zero; the
\* value predicted before the push has no part in it.
C2_RemainingIsLastPushLessTicks ==
  \A t \in Tasks :
    lastPush[t].has =>
      activeTimers[t].remainingTimeMillis =
        IF lastPush[t].timerActive
        THEN Max(0, lastPush[t].remainingTimeMillis - TickMillis * ticksSince[t])
        ELSE lastPush[t].remainingTimeMillis

\* one interval run after a push of (200, running) for t1
C2_Witness ==
  /\ lastPush["t1"] = TimerEntry(200, TRUE)
  /\ ticksSince["t1"] = 1
  /\ activeTimers["t1"].remainingTimeMillis = 100

\* C6: a start, pause, reset or setDuration command that fails leaves the
\* entries and the timer subscriptions as they were, and the caller gets the
\* rejection.
C6_FailedCommandChangesNothing ==
  [][/\ \A c \in Commands :
          CommandFails(c) =>
            /\ activeTimers' = activeTimers
            /\ timerSubscriptionState' = timerSubscriptionState
            /\ last'.op = FailName(c.kind)
     /\ \A t \in Focus :
          UpdatePomodoroTime(t, 0) =>
            /\ activeTimers' = activeTimers
            /\ timerSubscriptionState' = timerSubscriptionState
            /\ inflight' = inflight
            /\ last'.op = FailName("updateTimer")]_vars

\* a start command failed while t1 had a paused timer
C6_Witness ==
  /\ last.op = "startFail" /\ last.task = "t1"
  /\ activeTimers["t1"] = TimerEntry(50, FALSE)

\* C7 as stated: when a command succeeds, the entry of the task is exactly the
\* remainingTimeMillis and timerActive of the returned task.
C7_SuccessAppliesReturnedState ==
  [][\A c \in Commands, dto \in TaskDto :
       CommandSucceeds(c, dto) =>
         activeTimers'[c.task] =
           TimerEntry(dto.remainingTimeMillis, dto.timerActive)]_vars

ReachesZero(t) ==
  /\ Running(t)
  /\ activeTimers[t].remainingTimeMillis - TickMillis <= 0

\* C9: the interval run that brings a Running timer to zero makes it Paused
\* at zero in that run and issues exactly one pause request for the task (and
\* none for the others); the answer to that request changes no entry.
C9_ZeroPausesLocallyAndOnce ==
  [][/\ Tick =>
          \A t \in Tasks :
            /\ ReachesZero(t) =>
                 /\ activeTimers'[t] = TimerEntry(0, FALSE)
                 /\ bgPause'[t] = bgPause[t] + 1
            /\ ~ReachesZero(t) => bgPause'[t] = bgPause[t]
     /\ \A t \in Tasks :
          BgPauseAnswered(t) => activeTimers' = activeTimers]_vars

\* the interval run brought t1 to zero: paused, one pause request on its way
C9_Witness ==
  /\ last.op = "tick"
  /\ activeTimers["t1"] = TimerEntry(0, FALSE)
  /\ bgPause["t1"] = 1

\* C10 as stated: after the detail dialog is closed and after the tasks view
\* was left and entered again, a Running timer is still decremented by the
\* shared interval.
C10_RunningTimerKeepsTicking ==
  last.op \in {"closeDetails", "mount"} =>
    \A t \in Tasks : Running(t) => backgroundTimerInterval

\* C3 as stated: once the channel is connected again, every timer topic of
\* the registry is subscribed on the connection.
C3_ReconnectRestoresSubscriptions ==
  last.op = "connected" =>
    \A t \in activeTimerSubscriptions : wireTimer[t] # NoWire

\* C4 as stated: a callback given to subscribe for a topic, and not revoked,
\* is invoked for every message delivered on the topic.
C4_EveryHandlerReceives ==
  (last.op = "push" /\ timerCallbacks[last.task] # NoCallback) =>
    timerCallbacks[last.task] \in last.called

\* C5 as stated: at most one wire-level subscription per topic.
C5_OneWireSubscriptionPerTopic ==
  wireNotif <= 1


\* C11: when the page becomes visible after having been hidden for more than
\* the 30 s threshold, the task fetch of the collaborator is invoked, whether
\* or not tasks were loaded before.
C11_LongHideRefetches ==
  [][(last'.op = "visible" /\ hiddenFor' > HiddenThreshold)
       => fetching' = fetching + 1]_vars

\* C12: when the page becomes visible after having been hidden for at most
\* the 30 s threshold (30 s included), no task fetch is invoked and no
\* task's remainingTimeMillis or timerActive changes.
C12_ShortHideKeepsLocalState ==
  [][(last'.op = "visible" /\ hiddenFor' >= 0 /\ hiddenFor' <= HiddenThreshold)
       => /\ fetching' = fetching
          /\ tasksLoaded' = tasksLoaded
          /\ activeTimers' = activeTimers]_vars

\* the page was shown after exactly 30 s with no task in the store
C12_Witness ==
  /\ last.op = "visible"
  /\ hiddenFor = HiddenThreshold
  /\ mounted /\ ~tasksLoaded /\ fetching = 0

\* C13: a connect() while the client is connected or still connecting
\* creates no second client and changes no connection state.
C13_ConnectIsIdempotent ==
  [][(last'.op = "connect" /\ stompClient \in {"connecting", "connected"})
       => /\ stompClient' = stompClient
          /\ orphans' = orphans
          /\ isConnected' = isConnected]_vars

\* C14: right after disconnect() the client is gone and not connected, no
\* reconnect timeout is pending, no timer topic is registered and the
\* attempt count is 0.
C14_DisconnectLeavesNothingPending ==
  last.op = "disconnect"
    => /\ stompClient = "null" /\ ~isConnected
       /\ reconnectTimeout # "pending" /\ staleTimeouts = 0
       /\ activeTimerSubscriptions = {}
       /\ reconnectAttempts = 0

\* C15: the n-th reconnect attempt in a row is scheduled after
\* min(1 s * 2^(n-1), 30 s): 1 s, 2 s, 4 s, ..., never more than 30 s.
C15_BackoffDoublesFromOneSecond ==
  [][reconnectAttempts' = reconnectAttempts + 1
       => scheduledDelay' = Min(ReconnectBaseDelay * 2^reconnectAttempts,
                                ReconnectMaxDelay)]_vars

\* C16: when the socket closes unexpectedly after maxReconnectAttempts
\* attempts, a terminal ConnectionExhausted event is passed to the listeners,
\* no reconnect timeout is set, and the attempt count stays at the maximum.
C16_ExhaustionIsSurfaced ==
  [][\A code \in CloseCodes \ {NormalClosure} :
       (WebSocketClose(code) /\ reconnectAttempts >= maxReconnectAttempts)
         => /\ "ConnectionExhausted" \in events'
            /\ reconnectTimeout' = reconnectTimeout
            /\ staleTimeouts' = staleTimeouts
            /\ reconnectAttempts' = maxReconnectAttempts]_vars

\* C17: a connect() without a stored token creates no client, leaves the
\* connection state as it is and schedules no reconnect.
C17_ConnectWithoutTokenDoesNothing ==
  [][(last'.op = "connect" /\ ~token)
       => /\ stompClient' = stompClient
          /\ orphans' = orphans
          /\ isConnected' = isConnected
          /\ reconnectAttempts' = reconnectAttempts
          /\ reconnectTimeout' = reconnectTimeout
          /\ staleTimeouts' = staleTimeouts
          /\ scheduledDelay' = scheduledDelay]_vars

\* connect() was called with no token stored and no client
C17_Witness ==
  /\ last.op = "connect"
  /\ ~token
  /\ stompClient = "null" /\ ~isConnected
  /\ reconnectTimeout = "null" /\ reconnectAttempts = 0

\* the list has a record with this id
InFeed(id) == \E i \in DOMAIN notifications : notifications[i].id = id

\* C18: ingesting a record whose id is in the feed leaves the feed as it is;
\* ingesting a record with a new id puts it at the head and keeps the
\* earlier records in their order.
C18_IngestIsIdempotentAndPrepends ==
  [][last'.op = "ingest"
       => \A n \in lastIngested' :
            IF InFeed(n.id)
            THEN notifications' = notifications
            ELSE /\ Len(notifications') = Len(notifications) + 1
                 /\ Head(notifications') = n
                 /\ Tail(notifications') = notifications]_vars

\* a record with a new id was ingested into a feed that had two records
C18_Witness ==
  /\ last.op = "ingest"
  /\ Len(notifications) = 3
  /\ notifications[1].id = last.task
  /\ notifications[2].id # last.task /\ notifications[3].id # last.task

\* C19: unreadCount is the number of records of the feed whose read flag is
\* false, in every state; it is 0 right after markAllAsRead succeeded.
C19_UnreadCountIsCountOfUnread ==
  /\ unreadCount(Cur) =
       Cardinality({i \in DOMAIN notifications : ~notifications[i].read})
  /\ last.op = "markAllReadOk" => unreadCount(Cur) = 0

\* markAsRead succeeded and the feed has a read and an unread record
C19_Witness ==
  /\ last.op = "markReadOk"
  /\ Len(notifications) = 2
  /\ notifications[1].read /\ ~notifications[2].read
  /\ unreadCount(Cur) = 1

\* new is old with read = TRUE on the records whose id is in ids
MarkedRead(old, new, ids) ==
  /\ Len(new) = Len(old)
  /\ \A i \in DOMAIN old :
       new[i] = IF old[i].id \in ids THEN [old[i] EXCEPT !.read = TRUE]
                ELSE old[i]

\* C20: markAsRead(id) and markAllAsRead() leave the feed as it is when
\* they are called and when the collaborator fails (they reject then); when
\* it succeeds they set read on the record with that id, or on every
\* record, and change nothing else in the feed.
C20_MarkReadOnlyAfterSuccess ==
  [][/\ last'.op \in {"markRead", "markAllRead"}
          => notifications' = notifications
     /\ last'.op \in {"markReadFail", "markAllReadFail"}
          => notifications' = notifications /\ notifError'
     /\ \A r \in feedRequests \ feedRequests' :
          /\ last'.op = "markReadOk" => r = Request("markRead", last'.task)
          /\ last'.op = "markAllReadOk" => r = Request("markAllRead", NoTask)
          /\ last'.op = "markReadFail" => r = Request("markRead", last'.task)
          /\ last'.op = "markAllReadFail" => r = Request("markAllRead", NoTask)
     /\ last'.op = "markReadOk"
          => MarkedRead(notifications, notifications', {last'.task})
     /\ last'.op = "markAllReadOk"
          => MarkedRead(notifications, notifications', NotificationIds)]_vars

\* markAsRead succeeded for the second of two unread records
C20_Witness ==
  /\ last.op = "markReadOk"
  /\ Len(notifications) = 2
  /\ notifications[2].id = last.task
  /\ notifications[2].read /\ ~notifications[1].read


\* C22: one run of the interval callback sets the remaining time of every
\* Running timer with time left to max(0, remaining - 100) and leaves every
\* other entry (paused, at zero or absent) exactly as it was; no remaining
\* time is negative afterwards.
C22_TickStepsOnlyRunningTimers ==
  [][TickObserved =>
       \A t \in Tasks :
         /\ IF Running(t)
            THEN activeTimers'[t].remainingTimeMillis =
                   Max(0, activeTimers[t].remainingTimeMillis - TickMillis)
            ELSE activeTimers'[t] = activeTimers[t]
         /\ activeTimers'[t].remainingTimeMillis >= 0]_vars

\* a run of the interval callback has clamped one timer at zero while a paused
\* timer with time left is still as it was
C22_Witness ==
  /\ \E t \in Tasks :
       /\ ticksSince[t] = 1
       /\ activeTimers[t] = TimerEntry(0, FALSE)
       /\ lastPush[t] = TimerEntry(50, TRUE)
       /\ bgPause[t] > 0
  /\ \E t \in Tasks :
       /\ ticksSince[t] = 1
       /\ lastPush[t] = activeTimers[t]
       /\ activeTimers[t].has
       /\ ~activeTimers[t].timerActive
       /\ activeTimers[t].remainingTimeMillis > 0

\* C27 as stated: a subscribe to the timer topic of a task made while the
\* channel is not connected is not recorded as a subscription of the task, and
\* a subscribe made while the channel is connected leaves the task with a
\* subscription on the channel.
C27_SubscribeWhileDisconnectedIsNotRecorded ==
  [][\A t \in Tasks :
       last'.op = "subscribe" /\ last'.task = t =>
         /\ stompClient # "connected" /\ timerSubscriptions[t] = "none"
              => timerSubscriptions'[t] = "none"
         /\ stompClient = "connected" => wireTimer'[t] # NoWire]_vars

\* the task has a Paused timer
Paused(t) == activeTimers[t].has /\ ~activeTimers[t].timerActive

\* C28 as stated: a task whose timer topic is subscribed on the channel and
\* whose timer is Paused before and after a step keeps that subscription,
\* unless the step is the cleanup of the view.
C28_PausedTaskStaysSubscribed ==
  [][\A t \in Tasks :
       /\ wireTimer[t] # NoWire
       /\ Paused(t)
       /\ Paused(t)'
       /\ last'.op # "unmount"
       => wireTimer'[t] # NoWire]_vars

\* C25: in every reachable state of the store no two records of the list have
\* the same id, whatever fetches (with distinct ids in each response), pushes,
\* markAsRead and markAllAsRead calls came before.
C25_FeedIdsAreDistinct ==
  \A i, j \in DOMAIN notifications :
    notifications[i].id = notifications[j].id => i = j

\* a record arrived by push although the list got it from a fetch, and the
\* list holds it once next to another record
C25_Witness ==
  /\ last.op = "ingest"
  /\ Len(notifications) = 2
  /\ \E n \in lastIngested : notifications[2].id = n.id

\* a SUBSCRIBE to the notification topic is sent or queued in the step
SubscriptionIssued ==
  \/ wireNotif' > wireNotif
  \/ pendingNotificationSubscription' /\ ~pendingNotificationSubscription

\* C29: a subscription to the notification topic is only issued (sent or
\* queued) by a call of initialize() whose fetch of the list has succeeded,
\* or sent at CONNECTED for one queued that way; when the fetch of initialize()
\* fails, that step adds no listener, issues no subscription and does not set
\* initialized.
C29_SubscribeOnlyAfterInitialFetch ==
  [][/\ SubscriptionIssued =>
          last'.op \in {"initFetchOk", "initUserOk", "initNestedOk",
                        "connected"}
     /\ last'.op = "connected" /\ wireNotif' > wireNotif
          => pendingNotificationSubscription
     /\ last'.op \in {"fetchUserOk", "iconMount"} =>
          /\ listeners' = listeners
          /\ initialized' = initialized
     /\ last'.op \in {"initFetchFail", "initNestedFail"} =>
          /\ listeners' = listeners
          /\ ~SubscriptionIssued
          /\ initialized' = initialized]_vars

\* one initialize() call failed at its fetch and another one succeeded: one
\* listener is registered, the list is fetched and the queued subscription is
\* sent when the channel connects
C29_Witness ==
  /\ last.op = "connected"
  /\ notifError
  /\ initialized
  /\ listeners = 1
  /\ wireNotif = 1
  /\ Len(notifications) = 1

\* C30 as stated: at any moment at most one 'notification' listener is
\* registered and at most one subscription to the notification topic exists on
\* the connection or is queued for it.
C30_InitialisationTakesEffectOnce ==
  /\ listeners <= 1
  /\ wireNotif + (IF pendingNotificationSubscription THEN 1 ELSE 0) <= 1

\* what a frame on a timer topic or on the notification topic may change
MessageTargets ==
  <<activeTimers, notifications, wsNotifications, timerSubscriptionState,
    wireNotif, listeners, stompClient, isConnected, feedRequests>>

\* C21: a frame whose body does not parse, on a timer topic or on the
\* notification topic, changes no timer entry, no record of the feed and no
\* subscription; a frame that parses is processed whatever came before it (a
\* malformed frame included): the timer entry becomes the update, the
\* notification is appended to the notifications of the service and, with a
\* listener registered, is in the feed.
C21_MalformedMessageIsDropped ==
  [][/\ last'.op \in {"timerMessage", "notificationMessage"}
        /\ lastTwo'[2] \in {"timer malformed", "notification malformed"}
        => UNCHANGED MessageTargets
     /\ last'.op = "timerMessage" /\ lastTwo'[2] = "timer" =>
          /\ activeTimers'[last'.task] = lastPush'[last'.task]
          /\ UNCHANGED timerSubscriptionState
     /\ last'.op = "notificationMessage" /\ lastTwo'[2] = "notification" =>
          \A n \in lastIngested' :
            /\ wsNotifications' = Append(wsNotifications, n)
            /\ listeners > 0 => \E i \in DOMAIN notifications' :
                                   notifications'[i].id = n.id
            /\ wireNotif' = wireNotif]_vars

\* a malformed frame arrived on the notification topic and then one on the
\* timer topic: the timer entry is the last update, the feed has the last
\* notification, both topics are subscribed
C21_Witness ==
  /\ lastTwo = <<"notification malformed", "timer malformed">>
  /\ activeTimers["t1"] = lastPush["t1"]
  /\ activeTimers["t1"] = TimerEntry(50, TRUE)
  /\ \E n \in lastIngested : notifications[1].id = n.id
  /\ wireTimer["t1"] # NoWire
  /\ wireNotif > 0

\* C23: updates carry no ordering information and the one processed last
\* determines the entry: a frame of the timer topic replaces the entry by its
\* values whatever response was applied before it, and the response of a
\* start or pause replaces the entry by what the method derives from the
\* returned task whatever frame was processed before it.
C23_LastProcessedUpdateWins ==
  [][\A t \in Tasks :
       /\ last'.op = "timerMessage" /\ last'.task = t /\ lastTwo'[2] = "timer"
            => activeTimers'[t] = lastPush'[t]
       /\ last'.op = "startOk" /\ last'.task = t /\ lastTwo'[2] = "startOk"
            => \A dto \in lastResponse' :
                 activeTimers'[t] =
                   TimerEntry(OrElse(dto.remainingTimeMillis,
                                     dto.pomodoroTimeMillis), TRUE)
       /\ last'.op = "pauseOk" /\ last'.task = t /\ lastTwo'[2] = "pauseOk"
            => \A dto \in lastResponse' :
                 activeTimers'[t] =
                   TimerEntry(OrElse(dto.remainingTimeMillis,
                                     getTaskRemainingTime(Cur, t)), FALSE)]_vars

\* the response of a start was applied, then a frame the server had sent
\* before it handled the start was processed (the frame of the start is still
\* on its way): the entry is the stale paused state while the server has the
\* timer running
C23_Witness ==
  /\ last.op = "timerMessage"
  /\ lastTwo = <<"startOk", "timer">>
  /\ \E dto \in lastResponse : dto = serverTimers["t1"] /\ dto.timerActive
  /\ Len(pushQueue) = 1
  /\ activeTimers["t1"] = lastPush["t1"]
  /\ ~activeTimers["t1"].timerActive

\* the list has a record with this id whose read flag is set
IsRead(id) ==
  \E i \in DOMAIN notifications :
    notifications[i].id = id /\ notifications[i].read

\* C24 as stated: in every step other than a reset a record of the feed stays
\* in the feed, and a record that is read stays read.
C24_FeedOnlyGainsRecordsAndReads ==
  [][last'.op # "reset" =>
       \A id \in NotificationIds :
         /\ InFeed(id) => InFeed(id)'
         /\ IsRead(id) => IsRead(id)']_vars

\* C26 as stated: when a task is deleted, its entry is gone from activeTimers
\* (nothing is left for the interval to decrement or to pause at zero) and
\* its timer topic is no longer subscribed.
C26_DeleteDestroysTimerState ==
  [][\A t \in Tasks :
       last'.op = "deleteTaskOk" /\ last'.task = t =>
         /\ ~activeTimers'[t].has
         /\ timerSubscriptions'[t] = "none"
         /\ wireTimer'[t] = NoWire]_vars

=============================================================================
